---- MODULE Spec2Model ----
(***************************************************************************)
(* A model of lua-kit: the Lua 5.3 bytecode chunk writer (src/src/lib.rs), *)
(* the chunk reader (src/src/read.rs) and the instruction encoders         *)
(* (src/src/bytecode.rs).                                                  *)
(*                                                                         *)
(* Machine integers wider than 16 bits are kept as their bit pattern, a    *)
(* tuple of 16-bit limbs with the most significant limb first: u32 and i32 *)
(* are <<hi, lo>>, i64 and f64 are four limbs.  Every operation on them is *)
(* done limb by limb so that the full width is kept.                       *)
(***************************************************************************)
EXTENDS Integers, Sequences, FiniteSets, TLC

VARIABLES
    pc,        \* position of the driver that calls the library
    endian,    \* the build's native byte order (byteorder::NativeEndian)
    rk,        \* bytecode.rs: the RK value handed to RK::encode
    value,     \* bytecode.rs: the u32 RK::encode returned / RK::decode takes
    insn,      \* bytecode.rs: the arguments (op, a, sbx) of encode_sbx
    word,      \* bytecode.rs: the instruction word encode_sbx returned
    string,    \* lib.rs: the &str handed to write_string
    function,  \* lib.rs: the Function handed to write_file
    out,       \* Writer.out / Reader.out: the bytes of the sink / source
    result,    \* read.rs: what read_string / read_file / read_all returned
    buf,       \* read.rs read_all: the buffer being filled
    start,     \* read.rs read_all: the local `start`
    stream,    \* read.rs read_all: the bytes the source still holds
    fed,       \* read.rs read_all: the bytes the source has handed out so far
    mangled,   \* what the driver did to the chunk between write and read
    overflow_checks  \* the build's overflow-checks setting (on in debug builds)

vars == <<pc, endian, rk, value, insn, word, string, function, out, result,
          buf, start, stream, fed, mangled, overflow_checks>>

-----------------------------------------------------------------------------
(* Bounds *)

\* sbx values are taken within SbxWindow of each end of the range and of 0
SbxWindow == 1
\* the longest string handed to write_string
MaxStrLen == 256
\* the longest raw byte sequence handed to read_string
MaxRawLen == 5
\* the largest buffer handed to read_all, and the longest source
MaxBuf == 4
\* how many header bytes the driver overwrites
MaxCorrupt == 2
\* the deepest nesting of child prototypes
MaxDepth == 2

-----------------------------------------------------------------------------
(* Bits and limbs *)

Byte == 0..255

Pow2(n) == 2 ^ n

RECURSIVE BitAnd(_, _)
BitAnd(x, y) ==
    IF x = 0 \/ y = 0 THEN 0
    ELSE (IF x % 2 = 1 /\ y % 2 = 1 THEN 1 ELSE 0) + 2 * BitAnd(x \div 2, y \div 2)

RECURSIVE BitOr(_, _)
BitOr(x, y) ==
    IF x = 0 THEN y
    ELSE IF y = 0 THEN x
    ELSE (IF x % 2 = 1 \/ y % 2 = 1 THEN 1 ELSE 0) + 2 * BitOr(x \div 2, y \div 2)

\* `x as u32` for a small unsigned x (u8, an enum discriminant, a usize below 2^31)
U32(x) == <<(x \div 65536) % 65536, x % 65536>>

\* `x as u32` for an i32 x: the two's-complement bit pattern
I32AsU32(x) == <<(x \div 65536) % 65536, x % 65536>>

U32Or(x, y) == <<BitOr(x[1], y[1]), BitOr(x[2], y[2])>>

U32And(x, y) == <<BitAnd(x[1], y[1]), BitAnd(x[2], y[2])>>

\* x << k on a u32, 0 <= k < 32; the bits shifted past bit 31 are lost
U32Shl(x, k) ==
    IF k = 0 THEN x
    ELSE IF k < 16
    THEN <<(x[1] % Pow2(16 - k)) * Pow2(k) + (x[2] \div Pow2(16 - k)),
           (x[2] % Pow2(16 - k)) * Pow2(k)>>
    ELSE <<(x[2] % Pow2(32 - k)) * Pow2(k - 16), 0>>

\* x >> k on a u32, 0 <= k < 32
U32Shr(x, k) ==
    IF k = 0 THEN x
    ELSE IF k < 16
    THEN <<x[1] \div Pow2(k), (x[1] % Pow2(k)) * Pow2(16 - k) + (x[2] \div Pow2(k))>>
    ELSE <<0, x[1] \div Pow2(k - 16)>>

\* a u32 below 2^31 as a number; a usize on the 64-bit targets holds every u32
FitsNat(w) == w[1] < 32768
AsNat(w) == w[1] * 65536 + w[2]

-----------------------------------------------------------------------------
(* bytecode.rs: RK *)

BITRK == U32Shl(U32(1), 8)

RKs == [tag : {"R", "K"}, idx : Byte]

\* `x as u8` of a u32
AsU8(w) == w[2] % 256

\* !BITRK
NotBITRK == <<65535 - BITRK[1], 65535 - BITRK[2]>>

\* RK::decode testing bit 7 instead of bit 8
RKdecodeWrongBit(v) ==
    IF U32And(v, U32Shl(U32(1), 7)) # U32(0)
    THEN [tag |-> "K", idx |-> AsU8(U32And(v, NotBITRK))]
    ELSE [tag |-> "R", idx |-> AsU8(v)]

RKdecode(v) ==
    IF U32And(v, BITRK) # U32(0)
    THEN [tag |-> "K", idx |-> AsU8(U32And(v, NotBITRK))]
    ELSE [tag |-> "R", idx |-> AsU8(v)]

RKencode(x) ==
    IF x.tag = "R" THEN U32(x.idx)
    ELSE U32Or(U32(x.idx), BITRK)

-----------------------------------------------------------------------------
(* bytecode.rs: Opcode and encode_sbx *)

\* the discriminants of enum Opcode: Move = 0 .. ExtraArg = 46
Opcode == 0..46

\* the bias 0x20000 of encode_sbx
SbxBias == 131072

\* encode_sbx without the bias
encode_sbx_no_bias(op, a, sbx) ==
    U32Or(U32Or(U32(op), U32Shl(U32(a), 6)),
          U32Shl(U32And(I32AsU32(sbx), <<3, 65535>>), 14))

encode_sbx(op, a, sbx) ==
    U32Or(U32Or(U32(op), U32Shl(U32(a), 6)),
          U32Shl(U32And(I32AsU32(sbx + SbxBias), <<3, 65535>>), 14))

-----------------------------------------------------------------------------
(* lib.rs: constants and types *)

SIGNATURE == <<27, 76, 117, 97>>
VERSION == 83
FORMAT == 0
DATA == <<25, 147, 13, 10, 26, 10>>
\* 0x5678 as an i64
TEST_INT == <<0, 0, 0, 22136>>
\* the bits of the f64 370.5, 0x4077280000000000
TEST_NUMBER == <<16503, 10240, 0, 0>>

\* size_of::<Int>(), <Size>, <Instruction>, <Integer>, <Number>
SizeofInt == 4
SizeofSize == 4
SizeofInstruction == 4
SizeofInteger == 8
SizeofNumber == 8

Debug_none == [lineinfo |-> <<>>, localvars |-> <<>>, upvalues |-> <<>>]

-----------------------------------------------------------------------------
(* byteorder: NativeEndian reads and writes *)

Reverse(s) == [i \in 1..Len(s) |-> s[Len(s) + 1 - i]]

\* the bytes of a limb tuple, most significant byte first
BEBytes(w) ==
    [i \in 1..(2 * Len(w)) |->
        IF i % 2 = 1 THEN w[(i + 1) \div 2] \div 256 ELSE w[i \div 2] % 256]

\* the limb tuple of a byte sequence of even length, most significant byte first
BELimbs(bs) == [i \in 1..(Len(bs) \div 2) |-> bs[2 * i - 1] * 256 + bs[2 * i]]

ToNative(w) == IF endian = "little" THEN Reverse(BEBytes(w)) ELSE BEBytes(w)

FromNative(bs) == IF endian = "little" THEN BELimbs(Reverse(bs)) ELSE BELimbs(bs)

RECURSIVE Flatten(_)
Flatten(ss) == IF ss = <<>> THEN <<>> ELSE Head(ss) \o Flatten(Tail(ss))

\* the bytes f(x) of every element x of xs, in order
MapBytes(f(_), xs) == Flatten([i \in 1..Len(xs) |-> f(xs[i])])

-----------------------------------------------------------------------------
(* lib.rs: Writer.  Each operator is the bytes the method appends to out. *)

write_u8(x) == <<x>>
write_u32(w) == ToNative(w)
write_i32(w) == ToNative(w)
write_i64(w) == ToNative(w)
write_f64(w) == ToNative(w)

BoolByte(b) == IF b THEN 1 ELSE 0

write_header ==
    SIGNATURE
    \o write_u8(VERSION)
    \o write_u8(FORMAT)
    \o DATA
    \o write_u8(SizeofInt)
    \o write_u8(SizeofSize)
    \o write_u8(SizeofInstruction)
    \o write_u8(SizeofInteger)
    \o write_u8(SizeofNumber)
    \o write_i64(TEST_INT)
    \o write_f64(TEST_NUMBER)

\* write_string taking the marker form from length 254 on
write_string_from_254(s) ==
    IF Len(s) = 0 THEN write_u8(0)
    ELSE (IF Len(s) >= 254
          THEN write_u8(255) \o write_u32(U32(Len(s)))
          ELSE write_u8((Len(s) % 256) + 1))
         \o s

write_string(s) ==
    IF Len(s) = 0 THEN write_u8(0)
    ELSE (IF Len(s) >= 255
          THEN write_u8(255) \o write_u32(U32(Len(s)))
          ELSE write_u8((Len(s) % 256) + 1))
         \o s

write_constant(cons) ==
    CASE cons.tag = "Nil" -> write_u8(0)
      [] cons.tag = "Boolean" -> <<1, BoolByte(cons.b)>>
      [] cons.tag = "Float" -> write_u8(3) \o write_f64(cons.n)
      [] cons.tag = "Int" -> write_u8(19) \o write_i64(cons.n)
      [] cons.tag = "ShortString" -> write_u8(4) \o write_string(cons.s)
      [] cons.tag = "LongString" -> write_u8(20) \o write_string(cons.s)

write_upvalue(upval) ==
    CASE upval.tag = "Outer" -> <<0, upval.idx>>
      [] upval.tag = "Stack" -> <<1, upval.idx>>

write_localvar(var) ==
    write_string(var.name) \o write_i32(var.start_pc) \o write_i32(var.end_pc)

RECURSIVE write_function(_)
write_function(f) ==
    write_string(f.source)
    \o write_i32(f.line_start)
    \o write_i32(f.line_end)
    \o write_u8(f.num_params)
    \o write_u8(BoolByte(f.is_vararg))
    \o write_u8(f.max_stack_size)
    \o write_u32(U32(Len(f.code))) \o MapBytes(write_u32, f.code)
    \o write_u32(U32(Len(f.constants))) \o MapBytes(write_constant, f.constants)
    \o write_u32(U32(Len(f.upvalues))) \o MapBytes(write_upvalue, f.upvalues)
    \o write_u32(U32(Len(f.protos))) \o MapBytes(write_function, f.protos)
    \o write_u32(U32(Len(f.debug.lineinfo))) \o MapBytes(write_i32, f.debug.lineinfo)
    \o write_u32(U32(Len(f.debug.localvars))) \o MapBytes(write_localvar, f.debug.localvars)
    \o write_u32(U32(Len(f.debug.upvalues))) \o MapBytes(write_string, f.debug.upvalues)

write_file(f) ==
    write_header \o write_u8(Len(f.upvalues) % 256) \o write_function(f)

-----------------------------------------------------------------------------
(* read.rs: Reader.  Each operator reads the source bs from offset pos (the *)
(* number of bytes consumed so far) and is the io::Result it returns,      *)
(* with the offset after it.                                               *)

Ok(val, pos) == [ok |-> TRUE, val |-> val, pos |-> pos]

Err(kind, msg, pos) == [ok |-> FALSE, kind |-> kind, msg |-> msg, pos |-> pos]

\* a panic unwinds through every caller, as an Err does through try!
Panic(msg, pos) == [ok |-> FALSE, kind |-> "panic", msg |-> msg, pos |-> pos]

\* invalid(s)
invalid(msg, pos) == Err("InvalidInput", msg, pos)

\* std::io::Read::read_exact, which byteorder's read_u8 .. read_f64 call
read_exact(bs, pos, n) ==
    IF pos + n <= Len(bs)
    THEN Ok(SubSeq(bs, pos + 1, pos + n), pos + n)
    ELSE Err("UnexpectedEof", "failed to fill whole buffer", Len(bs))

read_u8(bs, pos) ==
    LET r == read_exact(bs, pos, 1) IN IF r.ok THEN Ok(r.val[1], r.pos) ELSE r

read_u32(bs, pos) ==
    LET r == read_exact(bs, pos, 4) IN IF r.ok THEN Ok(FromNative(r.val), r.pos) ELSE r

read_i32(bs, pos) ==
    LET r == read_exact(bs, pos, 4) IN IF r.ok THEN Ok(FromNative(r.val), r.pos) ELSE r

read_i64(bs, pos) ==
    LET r == read_exact(bs, pos, 8) IN IF r.ok THEN Ok(FromNative(r.val), r.pos) ELSE r

read_f64(bs, pos) ==
    LET r == read_exact(bs, pos, 8) IN IF r.ok THEN Ok(FromNative(r.val), r.pos) ELSE r

\* read_all on a buffer of n bytes over a source that holds bs: the loop ends
\* with the buffer full, or with a read of 0 bytes at the end of bs
read_all(bs, pos, n) ==
    IF pos + n <= Len(bs)
    THEN Ok(SubSeq(bs, pos + 1, pos + n), pos + n)
    ELSE invalid("unexpected EOF", Len(bs))

\* check!(get, want, note) failing
Mismatch(note, want, get, pos) ==
    [ok |-> FALSE, kind |-> "InvalidInput", msg |-> "invalid", note |-> note,
     want |-> want, get |-> get, pos |-> pos]

\* the reads and checks of read_header, in order.  The f64 comparison
\* get != TEST_NUMBER is a comparison of bits: 370.5 is neither 0 nor NaN.
HeaderChecksFormatLast ==
    << [note |-> "signature", how |-> "read_all", n |-> 4, want |-> SIGNATURE],
       [note |-> "version", how |-> "read_u8", n |-> 1, want |-> VERSION],
       [note |-> "test data", how |-> "read_all", n |-> 6, want |-> DATA],
       [note |-> "sizeof(int)", how |-> "read_u8", n |-> 1, want |-> SizeofInt],
       [note |-> "sizeof(size_t)", how |-> "read_u8", n |-> 1, want |-> SizeofSize],
       [note |-> "sizeof(Instruction)", how |-> "read_u8", n |-> 1, want |-> SizeofInstruction],
       [note |-> "sizeof(Integer)", how |-> "read_u8", n |-> 1, want |-> SizeofInteger],
       [note |-> "sizeof(Number)", how |-> "read_u8", n |-> 1, want |-> SizeofNumber],
       [note |-> "test integer", how |-> "read_i64", n |-> 8, want |-> TEST_INT],
       [note |-> "test number", how |-> "read_f64", n |-> 8, want |-> TEST_NUMBER],
       [note |-> "format", how |-> "read_u8", n |-> 1, want |-> FORMAT] >>

HeaderChecks ==
    << [note |-> "signature", how |-> "read_all", n |-> 4, want |-> SIGNATURE],
       [note |-> "version", how |-> "read_u8", n |-> 1, want |-> VERSION],
       [note |-> "format", how |-> "read_u8", n |-> 1, want |-> FORMAT],
       [note |-> "test data", how |-> "read_all", n |-> 6, want |-> DATA],
       [note |-> "sizeof(int)", how |-> "read_u8", n |-> 1, want |-> SizeofInt],
       [note |-> "sizeof(size_t)", how |-> "read_u8", n |-> 1, want |-> SizeofSize],
       [note |-> "sizeof(Instruction)", how |-> "read_u8", n |-> 1, want |-> SizeofInstruction],
       [note |-> "sizeof(Integer)", how |-> "read_u8", n |-> 1, want |-> SizeofInteger],
       [note |-> "sizeof(Number)", how |-> "read_u8", n |-> 1, want |-> SizeofNumber],
       [note |-> "test integer", how |-> "read_i64", n |-> 8, want |-> TEST_INT],
       [note |-> "test number", how |-> "read_f64", n |-> 8, want |-> TEST_NUMBER] >>

\* one line of read_header: the read named by c.how
HeaderRead(c, bs, pos) ==
    CASE c.how = "read_all" -> read_all(bs, pos, c.n)
      [] c.how = "read_u8" -> read_u8(bs, pos)
      [] c.how = "read_i64" -> read_i64(bs, pos)
      [] c.how = "read_f64" -> read_f64(bs, pos)

RECURSIVE HeaderFrom(_, _, _)
HeaderFrom(i, bs, pos) ==
    IF i > Len(HeaderChecks) THEN Ok(<<>>, pos)
    ELSE LET c == HeaderChecks[i]
             get == HeaderRead(c, bs, pos)
         IN  IF ~get.ok THEN get
             ELSE IF get.val # c.want THEN Mismatch(c.note, c.want, get.val, get.pos)
             ELSE HeaderFrom(i + 1, bs, get.pos)

read_header(bs, pos) == HeaderFrom(1, bs, pos)

-----------------------------------------------------------------------------
(* String::from_utf8: whether the bytes are well-formed UTF-8 *)

Cont(b) == b \in 128..191

Utf8Width(b) ==
    IF b < 128 THEN 1
    ELSE IF b \in 194..223 THEN 2
    ELSE IF b \in 224..239 THEN 3
    ELSE IF b \in 240..244 THEN 4
    ELSE 0

Utf8Second(lead, b) ==
    CASE lead = 224 -> b \in 160..191
      [] lead = 237 -> b \in 128..159
      [] lead = 240 -> b \in 144..191
      [] lead = 244 -> b \in 128..143
      [] OTHER -> Cont(b)

\* every byte that is no continuation byte starts a well-formed character
\* that ends right before the next such byte (or at the end)
Utf8Valid(bs) ==
    \A i \in 1..Len(bs) :
        IF Cont(bs[i]) THEN i > 1
        ELSE LET w == Utf8Width(bs[i])
             IN  /\ w > 0
                 /\ i + w - 1 <= Len(bs)
                 /\ w >= 2 => Utf8Second(bs[i], bs[i + 1])
                 /\ \A j \in (i + 2)..(i + w - 1) : Cont(bs[j])
                 /\ i + w <= Len(bs) => ~Cont(bs[i + w])

-----------------------------------------------------------------------------
(* read.rs: read_string, read_vec, read_function, read_file *)

\* the tail of read_string: the buffer of len bytes, read_all, from_utf8
StringPayload(bs, pos, len) ==
    LET r == read_all(bs, pos, len)
    IN  IF ~r.ok THEN r
        ELSE IF Utf8Valid(r.val) THEN Ok(r.val, r.pos)
        ELSE invalid("not utf8", r.pos)

\* read_string.  `len = (...) - 1` is a usize subtraction: with the u32 field 0
\* it overflows, which panics under overflow checks and otherwise wraps to
\* usize::MAX, a length vec![0u8; len] refuses with a panic.  A length that
\* exceeds what the source holds ends in read_all's error.
read_string(bs, pos) ==
    LET first == read_u8(bs, pos)
    IN  IF ~first.ok THEN first
        ELSE IF first.val = 0 THEN Ok(<<>>, first.pos)
        ELSE IF first.val < 255 THEN StringPayload(bs, first.pos, first.val - 1)
        ELSE LET w == read_u32(bs, first.pos)
             IN  IF ~w.ok THEN w
                 ELSE IF w.val = U32(0)
                 THEN IF overflow_checks
                      THEN Panic("attempt to subtract with overflow", w.pos)
                      ELSE Panic("capacity overflow", w.pos)
                 ELSE IF ~FitsNat(w.val) \/ AsNat(w.val) - 1 > Len(bs) - w.pos
                 THEN invalid("unexpected EOF", Len(bs))
                 ELSE StringPayload(bs, w.pos, AsNat(w.val) - 1)

\* i < len for a u32 len and a number i below 2^31
Below(i, len) == ~FitsNat(len) \/ i < AsNat(len)

\* the closure read_function hands read_vec for `constants`
read_constant(bs, pos) ==
    LET t == read_u8(bs, pos)
    IN  IF ~t.ok THEN t
        ELSE CASE t.val = 0 -> Ok([tag |-> "Nil"], t.pos)
               [] t.val = 1 ->
                    LET b == read_u8(bs, t.pos)
                    IN  IF ~b.ok THEN b
                        ELSE Ok([tag |-> "Boolean", b |-> (b.val # 0)], b.pos)
               [] t.val = 3 ->
                    LET n == read_f64(bs, t.pos)
                    IN  IF ~n.ok THEN n ELSE Ok([tag |-> "Float", n |-> n.val], n.pos)
               [] t.val = 19 ->
                    LET n == read_i64(bs, t.pos)
                    IN  IF ~n.ok THEN n ELSE Ok([tag |-> "Int", n |-> n.val], n.pos)
               [] t.val = 4 ->
                    LET s == read_string(bs, t.pos)
                    IN  IF ~s.ok THEN s ELSE Ok([tag |-> "ShortString", s |-> s.val], s.pos)
               [] t.val = 20 ->
                    LET s == read_string(bs, t.pos)
                    IN  IF ~s.ok THEN s ELSE Ok([tag |-> "LongString", s |-> s.val], s.pos)
               [] OTHER -> invalid("unknown constant type", t.pos)

\* the closure for `upvalues` failing on a tag that is neither 0 nor 1
read_upvalue_strict(bs, pos) ==
    LET stack == read_u8(bs, pos)
    IN  IF ~stack.ok THEN stack
        ELSE LET idx == read_u8(bs, stack.pos)
             IN  IF ~idx.ok THEN idx
                 ELSE IF stack.val = 0 THEN Ok([tag |-> "Outer", idx |-> idx.val], idx.pos)
                 ELSE IF stack.val = 1 THEN Ok([tag |-> "Stack", idx |-> idx.val], idx.pos)
                 ELSE invalid("unknown upvalue type", idx.pos)

\* the closure read_function hands read_vec for `upvalues`
read_upvalue(bs, pos) ==
    LET stack == read_u8(bs, pos)
    IN  IF ~stack.ok THEN stack
        ELSE LET idx == read_u8(bs, stack.pos)
             IN  IF ~idx.ok THEN idx
                 ELSE IF stack.val = 0 THEN Ok([tag |-> "Outer", idx |-> idx.val], idx.pos)
                 ELSE Ok([tag |-> "Stack", idx |-> idx.val], idx.pos)

\* Read(what, bs, pos) is the read named by `what`: a primitive, a closure
\* handed to read_vec, read_vec for a field, or read_function
RECURSIVE Read(_, _, _)
RECURSIVE VecRounds(_, _, _, _)
RECURSIVE TryEach(_, _, _, _, _)

\* what the closure handed to read_vec for a field reads
VecElem(field) ==
    CASE field = "code" -> "u32"
      [] field = "constants" -> "constant"
      [] field = "upvalues" -> "upvalue"
      [] field = "protos" -> "function"
      [] field = "lineinfo" -> "i32"
      [] field = "localvars" -> "localvar"
      [] field = "debug.upvalues" -> "string"

\* (0..len).map(|_| f(self)).collect() for n rounds: the elements read, or
\* the first Err.  The rounds are split in two halves, the second starting
\* where the first ended, which is the same as going through them one by one.
VecRounds(field, n, bs, pos) ==
    IF n = 0 THEN Ok(<<>>, pos)
    ELSE IF n = 1
    THEN LET e == Read(VecElem(field), bs, pos)
         IN  IF ~e.ok THEN e ELSE Ok(<<e.val>>, e.pos)
    ELSE LET first == VecRounds(field, n \div 2, bs, pos)
         IN  IF ~first.ok THEN first
             ELSE LET rest == VecRounds(field, n - (n \div 2), bs, first.pos)
                  IN  IF ~rest.ok THEN rest
                      ELSE Ok(first.val \o rest.val, rest.pos)

\* read_vec.  Every element takes at least one byte of the source, so a len
\* above the number of bytes left ends in an Err within that number of
\* rounds plus one: no more rounds than that are gone through.
read_vec(field, bs, pos) ==
    LET len == read_u32(bs, pos)
    IN  IF ~len.ok THEN len
        ELSE IF Below(Len(bs) - len.pos, len.val)
        THEN VecRounds(field, Len(bs) - len.pos + 1, bs, len.pos)
        ELSE VecRounds(field, AsNat(len.val), bs, len.pos)

\* the try!(..) expressions of a struct literal from the i-th on, evaluated
\* in the order written: the first Err is returned, else the values read
TryEach(whats, i, acc, bs, pos) ==
    IF i > Len(whats) THEN Ok(acc, pos)
    ELSE LET r == Read(whats[i], bs, pos)
         IN  IF ~r.ok THEN r
             ELSE TryEach(whats, i + 1, Append(acc, r.val), bs, r.pos)

\* the closure read_function hands read_vec for `debug.localvars`
read_localvar(bs, pos) ==
    LET r == TryEach(<<"string", "i32", "i32">>, 1, <<>>, bs, pos)
    IN  IF ~r.ok THEN r
        ELSE Ok([name |-> r.val[1], start_pc |-> r.val[2], end_pc |-> r.val[3]], r.pos)

\* the reads of the struct literal of read_function, in the order written
FunctionReads ==
    <<"string", "i32", "i32", "u8", "u8", "u8",
      "code", "constants", "upvalues", "protos",
      "lineinfo", "localvars", "debug.upvalues">>

\* Function { source: .., .. debug: Debug { .. } } from the values read
FunctionOf(v) ==
    [source |-> v[1],
     line_start |-> v[2],
     line_end |-> v[3],
     num_params |-> v[4],
     is_vararg |-> (v[5] # 0),
     max_stack_size |-> v[6],
     code |-> v[7],
     constants |-> v[8],
     upvalues |-> v[9],
     protos |-> v[10],
     debug |-> [lineinfo |-> v[11], localvars |-> v[12], upvalues |-> v[13]]]

read_function(bs, pos) ==
    LET r == TryEach(FunctionReads, 1, <<>>, bs, pos)
    IN  IF ~r.ok THEN r ELSE Ok(FunctionOf(r.val), r.pos)

Read(what, bs, pos) ==
    CASE what = "u8" -> read_u8(bs, pos)
      [] what = "u32" -> read_u32(bs, pos)
      [] what = "i32" -> read_i32(bs, pos)
      [] what = "string" -> read_string(bs, pos)
      [] what = "constant" -> read_constant(bs, pos)
      [] what = "upvalue" -> read_upvalue(bs, pos)
      [] what = "localvar" -> read_localvar(bs, pos)
      [] what = "function" -> read_function(bs, pos)
      [] OTHER -> read_vec(what, bs, pos)

read_file(bs) ==
    LET h == read_header(bs, 0)
    IN  IF ~h.ok THEN h
        ELSE LET u == read_u8(bs, h.pos)
             IN  IF ~u.ok THEN u ELSE read_function(bs, u.pos)

-----------------------------------------------------------------------------
(* The variables a specification does not use keep these values *)

IdleBuild == endian = "little" /\ overflow_checks = TRUE

IdleBytecode ==
    /\ rk = [tag |-> "R", idx |-> 0]
    /\ value = U32(0)
    /\ insn = [op |-> 0, a |-> 0, sbx |-> 0]
    /\ word = U32(0)

IdleReadAll == buf = <<>> /\ start = 0 /\ stream = <<>> /\ fed = <<>>

NoResult == [ok |-> FALSE, kind |-> "none", msg |-> "", pos |-> 0]

-----------------------------------------------------------------------------
(* SpecRK: a caller encodes an RK and decodes the number it got *)

InitRK ==
    /\ pc = "rk"
    /\ rk \in RKs
    /\ value = U32(0)
    /\ insn = [op |-> 0, a |-> 0, sbx |-> 0]
    /\ word = U32(0)
    /\ string = <<>> /\ function = <<>> /\ out = <<>> /\ mangled = {}
    /\ result = NoResult
    /\ IdleReadAll /\ IdleBuild

RKEncodeCall ==
    /\ pc = "rk"
    /\ value' = RKencode(rk)
    /\ pc' = "rk_encoded"
    /\ UNCHANGED <<endian, rk, insn, word, string, function, out, result,
                   buf, start, stream, fed, mangled, overflow_checks>>

RKDecodeCall ==
    /\ pc = "rk_encoded"
    /\ result' = RKdecode(value)
    /\ pc' = "rk_decoded"
    /\ UNCHANGED <<endian, rk, value, insn, word, string, function, out,
                   buf, start, stream, fed, mangled, overflow_checks>>

NextRK == RKEncodeCall \/ RKDecodeCall

SpecRK == InitRK /\ [][NextRK]_vars

\* C7: decode(encode(x)) = x for every R(r) and K(k), r and k in 0..255; the
\* encoding of R(r) has bit 0x100 clear and that of K(k) has it set; the
\* encodings lie in 0..511 and no other RK value has the same encoding.
RKRoundTrip ==
    /\ pc = "rk_decoded" => result = rk
    /\ pc \in {"rk_encoded", "rk_decoded"} =>
         /\ value[1] = 0 /\ value[2] \in 0..511
         /\ ((value[2] \div 256) % 2 = 1) <=> (rk.tag = "K")
         /\ \A x \in RKs \ {rk} : RKencode(x) # value

RKRoundTripWitness == pc = "rk_decoded" /\ rk = [tag |-> "K", idx |-> 255]

-----------------------------------------------------------------------------
(* SpecSbx: a caller encodes an AsBx instruction *)

SbxValues ==
    ((0 - SbxBias)..(SbxWindow - SbxBias))
    \cup ((0 - SbxWindow)..SbxWindow)
    \cup ((SbxBias - 1 - SbxWindow)..(SbxBias - 1))

InitSbx ==
    /\ pc = "sbx"
    /\ insn \in [op : Opcode, a : Byte, sbx : SbxValues]
    /\ rk = [tag |-> "R", idx |-> 0]
    /\ value = U32(0)
    /\ word = U32(0)
    /\ string = <<>> /\ function = <<>> /\ out = <<>> /\ mangled = {}
    /\ result = NoResult
    /\ IdleReadAll /\ IdleBuild

EncodeSbxCall ==
    /\ pc = "sbx"
    /\ word' = encode_sbx(insn.op, insn.a, insn.sbx)
    /\ pc' = "sbx_encoded"
    /\ UNCHANGED <<endian, rk, value, insn, string, function, out, result,
                   buf, start, stream, fed, mangled, overflow_checks>>

NextSbx == EncodeSbxCall

SpecSbx == InitSbx /\ [][NextSbx]_vars

\* the fields of an instruction word: opcode bits 0..5, A bits 6..13, Bx bits 14..31
GetOpcode(w) == AsNat(U32And(w, U32(63)))
GetA(w) == AsNat(U32And(U32Shr(w, 6), U32(255)))
GetBx(w) == AsNat(U32And(U32Shr(w, 14), <<3, 65535>>))

\* C8: for every opcode, every a in 0..255 and every sbx in [-0x20000, 0x1ffff],
\* the Bx field of encode_sbx(op, a, sbx) less the bias is sbx, and the opcode
\* and A fields of the word are op and a.
SbxRoundTrip ==
    pc = "sbx_encoded" =>
        /\ GetBx(word) - SbxBias = insn.sbx
        /\ GetOpcode(word) = insn.op
        /\ GetA(word) = insn.a

SbxRoundTripWitness ==
    /\ pc = "sbx_encoded"
    /\ insn = [op |-> 46, a |-> 255, sbx |-> 0 - SbxBias]
    /\ word = <<0, 16366>>

-----------------------------------------------------------------------------
(* SpecStr: a caller writes one string and reads it back *)

\* the lengths of the strings written: short ones, ones around half the
\* one-byte range, and the ones from 253 up to MaxStrLen
StrLens == (0..3) \cup (126..129) \cup (253..MaxStrLen)

\* strings (UTF-8 bytes) of length n: 'a' repeated, NUL repeated, the
\* alphabet in a cycle, and two-byte characters (U+00E9) after an 'x' if n is odd
StrFill(n, b) == [i \in 1..n |-> b]
StrCycle(n) == [i \in 1..n |-> 97 + ((i - 1) % 26)]
StrAccents(n) ==
    [i \in 1..n |-> IF n % 2 = 1 /\ i = 1 THEN 120
                    ELSE IF (i + n) % 2 = 1 THEN 195 ELSE 169]

Strings ==
    UNION { {StrFill(n, 97), StrFill(n, 0), StrCycle(n), StrAccents(n)} : n \in StrLens }

InitStr ==
    /\ pc = "str"
    /\ string \in Strings
    /\ endian \in {"little", "big"}
    /\ overflow_checks \in BOOLEAN
    /\ function = <<>> /\ out = <<>> /\ mangled = {}
    /\ result = NoResult
    /\ IdleBytecode /\ IdleReadAll

WriteStringCall ==
    /\ pc = "str"
    /\ out' = write_string(string)
    /\ pc' = "str_written"
    /\ UNCHANGED <<endian, rk, value, insn, word, string, function, result,
                   buf, start, stream, fed, mangled, overflow_checks>>

ReadStringCall ==
    /\ pc = "str_written"
    /\ result' = read_string(out, 0)
    /\ pc' = "str_read"
    /\ UNCHANGED <<endian, rk, value, insn, word, string, function, out,
                   buf, start, stream, fed, mangled, overflow_checks>>

NextStr == WriteStringCall \/ ReadStringCall

SpecStr == InitStr /\ [][NextStr]_vars

\* C2: for a string of every length, read_string on the bytes write_string
\* wrote returns exactly the string and consumes exactly those bytes.
StringRoundTrip ==
    pc = "str_read" =>
        /\ result.ok
        /\ result.val = string
        /\ result.pos = Len(out)

\* the four bytes of the u32 255 in the build's byte order
U32_255 == IF endian = "little" THEN <<255, 0, 0, 0>> ELSE <<0, 0, 0, 255>>

\* C3: write_string writes the empty string as the byte 0, a string of 254
\* bytes as the length byte 255 (len + 1) and the bytes, a string of 255 bytes
\* as 0xff, the u32 255 and the bytes; read_string turns the byte 0 into the
\* empty string.
StringWireForm ==
    /\ pc \in {"str_written", "str_read"} =>
         /\ Len(string) = 0 => out = <<0>>
         /\ Len(string) = 254 => out = <<255>> \o string
         /\ Len(string) = 255 => out = <<255>> \o U32_255 \o string
    /\ pc = "str_read" /\ out = <<0>> =>
         result.ok /\ result.val = <<>> /\ result.pos = 1

StringWireFormWitness ==
    /\ pc = "str_read"
    /\ Len(string) = 254
    /\ out[1] = 255
    /\ Len(out) = 255

-----------------------------------------------------------------------------
(* SpecRaw: a caller hands read_string a source holding arbitrary bytes *)

RawBytes == {0, 1, 2, 97, 255}

RECURSIVE SeqsUpTo(_, _)
SeqsUpTo(S, n) ==
    IF n = 0 THEN {<<>>}
    ELSE LET shorter == SeqsUpTo(S, n - 1)
         IN  shorter \cup {Append(s, x) : s \in {t \in shorter : Len(t) = n - 1}, x \in S}

InitRaw ==
    /\ pc = "raw"
    /\ out \in SeqsUpTo(RawBytes, MaxRawLen)
    /\ endian \in {"little", "big"}
    /\ overflow_checks \in BOOLEAN
    /\ string = <<>> /\ function = <<>> /\ mangled = {}
    /\ result = NoResult
    /\ IdleBytecode /\ IdleReadAll

ReadRawCall ==
    /\ pc = "raw"
    /\ result' = read_string(out, 0)
    /\ pc' = "raw_read"
    /\ UNCHANGED <<endian, rk, value, insn, word, string, function, out,
                   buf, start, stream, fed, mangled, overflow_checks>>

NextRaw == ReadRawCall

SpecRaw == InitRaw /\ [][NextRaw]_vars

\* C10: whatever bytes read_string is given, the payload length it computes
\* is not negative, so that it returns a string or returns an error; the
\* bytes 0xff 0 0 0 0 too.
StringLengthNeverUnderflows ==
    pc = "raw_read" => (result.ok \/ result.kind \in {"UnexpectedEof", "InvalidInput"})

-----------------------------------------------------------------------------
(* SpecReadAll: Reader::read_all, one action per iteration of its loop, over *)
(* a source whose read may hand out fewer bytes than asked for.             *)

Min(x, y) == IF x < y THEN x ELSE y

\* self.out.read(&mut buf[start..]) handing out the first n bytes of the
\* stream: the buffer afterwards
SourceRead(b, s, data, n) ==
    [i \in 1..Len(b) |-> IF s < i /\ i <= s + n THEN data[i - s] ELSE b[i]]

\* the body of the loop after the read returned Ok(n), with a read of 0
\* bytes ending the loop as if the buffer were full
AfterReadBreakOnZero(s, n) ==
    IF n = 0
    THEN [ret |-> TRUE, result |-> Ok(<<>>, s), start |-> s]
    ELSE [ret |-> FALSE, result |-> NoResult, start |-> s + n]

\* the body of the loop after the read returned Ok(n)
AfterRead(s, n) ==
    IF n = 0
    THEN [ret |-> TRUE, result |-> invalid("unexpected EOF", s), start |-> s]
    ELSE [ret |-> FALSE, result |-> NoResult, start |-> s + n]

InitReadAll ==
    /\ pc = "read_all"
    /\ buf \in {StrFill(n, 0) : n \in 0..MaxBuf}
    /\ start = 0
    /\ stream \in SeqsUpTo({7, 8}, MaxBuf)
    /\ fed = <<>>
    /\ result = NoResult
    /\ string = <<>> /\ function = <<>> /\ out = <<>> /\ mangled = {}
    /\ IdleBytecode /\ IdleBuild

\* one iteration: the source hands out n bytes, 1 <= n <= the room left,
\* or 0 bytes (at the end of the stream, or whenever it chooses to)
ReadAllIterate ==
    /\ pc = "read_all"
    /\ start < Len(buf)
    /\ \E n \in 0..Min(Len(buf) - start, Len(stream)) :
         LET after == AfterRead(start, n)
         IN  /\ buf' = SourceRead(buf, start, stream, n)
             /\ stream' = SubSeq(stream, n + 1, Len(stream))
             /\ fed' = Append(fed, SubSeq(stream, 1, n))
             /\ start' = after.start
             /\ result' = after.result
             /\ pc' = IF after.ret THEN "read_all_done" ELSE "read_all"
    /\ UNCHANGED <<endian, rk, value, insn, word, string, function, out,
                   mangled, overflow_checks>>

\* try!: the source's read fails and read_all returns its error
ReadAllSourceFails ==
    /\ pc = "read_all"
    /\ start < Len(buf)
    /\ result' = Err("Other", "source failed", start)
    /\ pc' = "read_all_done"
    /\ UNCHANGED <<endian, rk, value, insn, word, string, function, out,
                   buf, start, stream, fed, mangled, overflow_checks>>

\* the loop ends: Ok(())
ReadAllReturn ==
    /\ pc = "read_all"
    /\ ~(start < Len(buf))
    /\ result' = Ok(<<>>, start)
    /\ pc' = "read_all_done"
    /\ UNCHANGED <<endian, rk, value, insn, word, string, function, out,
                   buf, start, stream, fed, mangled, overflow_checks>>

NextReadAll == ReadAllIterate \/ ReadAllSourceFails \/ ReadAllReturn

SpecReadAll == InitReadAll /\ [][NextReadAll]_vars

\* C9: read_all returns Ok only with the whole buffer filled, the bytes the
\* source handed out stored in order at consecutive positions; while it
\* runs the first `start` bytes of the buffer are the bytes handed out so
\* far; a read of 0 bytes before the buffer is full makes it return the
\* unexpected-EOF error, and nothing else does.
ReadAllFillsOrFails ==
    /\ start <= Len(buf)
    /\ SubSeq(buf, 1, start) = Flatten(fed)
    /\ pc = "read_all_done" /\ result.ok =>
         /\ start = Len(buf)
         /\ buf = Flatten(fed)
         /\ \A i \in 1..Len(fed) : fed[i] # <<>>
    /\ pc = "read_all_done" /\ fed # <<>> /\ fed[Len(fed)] = <<>> =>
         /\ ~result.ok
         /\ result.kind = "InvalidInput" /\ result.msg = "unexpected EOF"
         /\ start < Len(buf)
    /\ pc = "read_all_done" /\ ~result.ok /\ result.msg = "unexpected EOF" =>
         fed # <<>> /\ fed[Len(fed)] = <<>>
    /\ pc = "read_all" => \A i \in 1..Len(fed) : fed[i] # <<>>

ReadAllFillsOrFailsWitness ==
    /\ pc = "read_all_done"
    /\ result.ok
    /\ Len(buf) = 3
    /\ Len(fed) = 3

-----------------------------------------------------------------------------
(* The Function trees handed to write_file *)

\* i32 -1
MinusOne == <<65535, 65535>>

ScalarsPool ==
    { [line_start |-> U32(0), line_end |-> U32(0), num_params |-> 0,
       is_vararg |-> FALSE, max_stack_size |-> 0],
      [line_start |-> U32(1), line_end |-> MinusOne, num_params |-> 255,
       is_vararg |-> TRUE, max_stack_size |-> 2] }

MkFunction(source, sc, code, constants, upvalues, protos, debug) ==
    [source |-> source,
     line_start |-> sc.line_start,
     line_end |-> sc.line_end,
     num_params |-> sc.num_params,
     is_vararg |-> sc.is_vararg,
     max_stack_size |-> sc.max_stack_size,
     code |-> code,
     constants |-> constants,
     upvalues |-> upvalues,
     protos |-> protos,
     debug |-> debug]

ZeroScalars ==
    [line_start |-> U32(0), line_end |-> U32(0), num_params |-> 0,
     is_vararg |-> FALSE, max_stack_size |-> 0]

\* empty code, no constants, no children, no debug info
MinimalFn == MkFunction(<<>>, ZeroScalars, <<>>, <<>>, <<>>, <<>>, Debug_none)

\* encode(Opcode::Move, 0, 1, 0) = 1 << 23
MoveWord == <<128, 0>>

Int42 == [tag |-> "Int", n |-> <<0, 0, 0, 42>>]

\* one Move, the constant 42, no upvalues, one minimal child, no debug info
ScenarioFn ==
    MkFunction(<<>>, ZeroScalars, <<MoveWord>>, <<Int42>>, <<>>, <<MinimalFn>>, Debug_none)

SomeDebug ==
    [lineinfo |-> <<U32(1), MinusOne>>,
     localvars |-> <<[name |-> <<105>>, start_pc |-> U32(0), end_pc |-> U32(1)]>>,
     upvalues |-> << <<95, 69, 78, 86>> >>]

\* a chain of d nested children under a function with something in every field
RECURSIVE NestedFn(_)
NestedFn(d) ==
    IF d = 0 THEN MinimalFn
    ELSE MkFunction(<<64, 120>>,
                    [line_start |-> U32(d), line_end |-> U32(d + 1), num_params |-> 1,
                     is_vararg |-> TRUE, max_stack_size |-> 2],
                    <<MoveWord>>,
                    <<[tag |-> "ShortString", s |-> <<104, 105>>], [tag |-> "Nil"]>>,
                    <<[tag |-> "Stack", idx |-> 0], [tag |-> "Outer", idx |-> 1]>>,
                    <<NestedFn(d - 1)>>,
                    SomeDebug)

SourcePool == {<<>>, <<64, 120>>} \cup {StrFill(n, 97) : n \in 253..MaxStrLen}

CodePool == {<<>>, <<MoveWord>>, <<MoveWord, MinusOne>>}

ConstantsPool ==
    { <<>>,
      <<Int42>>,
      <<[tag |-> "Nil"], [tag |-> "Boolean", b |-> TRUE], [tag |-> "Boolean", b |-> FALSE]>>,
      <<[tag |-> "ShortString", s |-> <<104, 105>>], [tag |-> "LongString", s |-> <<>>]>>,
      <<[tag |-> "Int", n |-> <<65535, 65535, 65535, 65535>>],
        [tag |-> "Float", n |-> TEST_NUMBER]>>,
      <<[tag |-> "LongString", s |-> StrCycle(MaxStrLen)]>> }

UpvaluesPool ==
    { <<>>,
      <<[tag |-> "Outer", idx |-> 0]>>,
      <<[tag |-> "Stack", idx |-> 1], [tag |-> "Outer", idx |-> 255]>> }

ProtosPool ==
    {<<>>} \cup {<<NestedFn(d)>> : d \in 0..(MaxDepth - 1)}
           \cup {<<NestedFn(MaxDepth - 1), MinimalFn>>}

DebugPool == {Debug_none, SomeDebug}

Functions ==
    { MkFunction(source, sc, code, constants, upvalues, protos, debug) :
        source \in SourcePool, sc \in ScalarsPool, code \in CodePool,
        constants \in ConstantsPool, upvalues \in UpvaluesPool,
        protos \in ProtosPool, debug \in DebugPool }

-----------------------------------------------------------------------------
(* The driver of the file specifications: write_file, then perhaps a change *)
(* to the chunk, then read_file.                                           *)

InitDriver(pool) ==
    /\ pc = "file"
    /\ function \in pool
    /\ endian \in {"little", "big"}
    /\ overflow_checks = TRUE
    /\ out = <<>>
    /\ mangled = {}
    /\ result = NoResult
    /\ string = <<>>
    /\ IdleBytecode /\ IdleReadAll

WriteFileCall ==
    /\ pc = "file"
    /\ out' = write_file(function)
    /\ pc' = "written"
    /\ UNCHANGED <<endian, rk, value, insn, word, string, function, result,
                   buf, start, stream, fed, mangled, overflow_checks>>

ReadFileCall ==
    /\ pc = "written"
    /\ result' = read_file(out)
    /\ pc' = "read"
    /\ UNCHANGED <<endian, rk, value, insn, word, string, function, out,
                   buf, start, stream, fed, mangled, overflow_checks>>

-----------------------------------------------------------------------------
(* SpecFile: write_file, then read_file on the chunk *)

InitFile == InitDriver(Functions)

NextFile == WriteFileCall \/ ReadFileCall

SpecFile == InitFile /\ [][NextFile]_vars

\* C1: read_file on the bytes write_file wrote for a Function returns Ok with
\* a tree equal to it, string constants' tags and every sequence's order
\* included.
FileRoundTrip ==
    pc = "read" => result.ok /\ result.val = function

-----------------------------------------------------------------------------
(* SpecTrunc: write_file, the chunk cut to a strict prefix, read_file *)

\* a function with something in every field and one level of children
FullFn ==
    MkFunction(<<64, 120>>,
               [line_start |-> U32(1), line_end |-> MinusOne, num_params |-> 255,
                is_vararg |-> TRUE, max_stack_size |-> 2],
               <<MoveWord, MinusOne>>,
               <<Int42, [tag |-> "LongString", s |-> <<104, 105>>],
                 [tag |-> "Boolean", b |-> TRUE]>>,
               <<[tag |-> "Stack", idx |-> 1], [tag |-> "Outer", idx |-> 255]>>,
               <<NestedFn(1)>>,
               SomeDebug)

\* minimal but for a source name of n bytes
LongSourceFn(n) ==
    MkFunction(StrFill(n, 97), ZeroScalars, <<>>, <<>>, <<>>, <<>>, Debug_none)

TruncPool ==
    {MinimalFn, ScenarioFn, FullFn} \cup {LongSourceFn(n) : n \in 253..MaxStrLen}

InitTrunc == InitDriver(TruncPool)

Truncate ==
    /\ pc = "written"
    /\ mangled = {}
    /\ \E k \in 0..(Len(out) - 1) :
         /\ out' = SubSeq(out, 1, k)
         /\ mangled' = {[op |-> "truncate", at |-> k]}
    /\ UNCHANGED <<pc, endian, rk, value, insn, word, string, function, result,
                   buf, start, stream, fed, overflow_checks>>

NextTrunc == WriteFileCall \/ Truncate \/ ReadFileCall

SpecTrunc == InitTrunc /\ [][NextTrunc]_vars

IsEndOfData(r) ==
    /\ ~r.ok
    /\ \/ r.kind = "UnexpectedEof"
       \/ r.kind = "InvalidInput" /\ r.msg = "unexpected EOF"

\* C6: read_file on a strict prefix of a chunk write_file wrote returns an
\* end-of-data error, and never Ok.
TruncatedIsEndOfData ==
    pc = "read" /\ mangled # {} => IsEndOfData(result)

-----------------------------------------------------------------------------
(* SpecHeader: write_file, some header bytes overwritten, read_file *)

HeaderLen == Len(write_header)

CorruptBytes == {0, 255}

InitHeader == InitDriver({ScenarioFn})

CorruptHeader ==
    /\ pc = "written"
    /\ Cardinality(mangled) < MaxCorrupt
    /\ \E i \in 1..HeaderLen, b \in CorruptBytes :
         /\ \A m \in mangled : m.at # i
         /\ out[i] # b
         /\ out' = [out EXCEPT ![i] = b]
         /\ mangled' = mangled \cup {[op |-> "set", at |-> i, byte |-> b]}
    /\ UNCHANGED <<pc, endian, rk, value, insn, word, string, function, result,
                   buf, start, stream, fed, overflow_checks>>

NextHeader == WriteFileCall \/ CorruptHeader \/ ReadFileCall

SpecHeader == InitHeader /\ [][NextHeader]_vars

\* the header's fields in order: the name check! gives each, its first and
\* last byte in the chunk
HeaderLayout ==
    << <<"signature", 1, 4>>, <<"version", 5, 5>>, <<"format", 6, 6>>,
       <<"test data", 7, 12>>, <<"sizeof(int)", 13, 13>>, <<"sizeof(size_t)", 14, 14>>,
       <<"sizeof(Instruction)", 15, 15>>, <<"sizeof(Integer)", 16, 16>>,
       <<"sizeof(Number)", 17, 17>>, <<"test integer", 18, 25>>,
       <<"test number", 26, 33>> >>

\* the header a chunk must start with, byte by byte
ExpectedHeader ==
    <<27, 76, 117, 97, 83, 0, 25, 147, 13, 10, 26, 10, 4, 4, 4, 8, 8>>
    \o (IF endian = "little"
        THEN <<120, 86, 0, 0, 0, 0, 0, 0>> \o <<0, 0, 0, 0, 0, 40, 119, 64>>
        ELSE <<0, 0, 0, 0, 0, 0, 86, 120>> \o <<64, 119, 40, 0, 0, 0, 0, 0>>)

FieldDiffers(bs, f) == \E i \in f[2]..f[3] : bs[i] # ExpectedHeader[i]

\* the indices of the fields of HeaderLayout in which bs differs
BadFields(bs) == {k \in 1..Len(HeaderLayout) : FieldDiffers(bs, HeaderLayout[k])}

FirstBadField(bs) ==
    HeaderLayout[CHOOSE k \in BadFields(bs) : \A j \in BadFields(bs) : k <= j]

\* C4: read_file on a chunk whose header differs from the expected one
\* returns an error, and no Function, that names the first field in header
\* order that differs, having read nothing past that field.
HeaderMismatchNamesField ==
    pc = "read" /\ BadFields(out) # {} =>
        /\ ~result.ok
        /\ result.kind = "InvalidInput" /\ result.msg = "invalid"
        /\ result.note = FirstBadField(out)[1]
        /\ result.pos = FirstBadField(out)[3]
        /\ result.pos <= HeaderLen

HeaderMismatchNamesFieldWitness ==
    /\ pc = "read"
    /\ Cardinality(BadFields(out)) = 2
    /\ ~result.ok
    /\ result.note = "sizeof(Integer)"

-----------------------------------------------------------------------------
(* SpecTag: write_file, one constant or upvalue tag byte of the root       *)
(* function overwritten, read_file                                        *)

\* functions with constants and upvalues and no string of 254 bytes or more
TagPool ==
    { MkFunction(source, sc, <<MoveWord>>, constants, upvalues, protos, SomeDebug) :
        source \in {<<>>, <<64, 120>>},
        sc \in ScalarsPool,
        constants \in {c \in ConstantsPool : c # <<>> /\ c # <<[tag |-> "LongString", s |-> StrCycle(MaxStrLen)]>>},
        upvalues \in UpvaluesPool \ {<<>>},
        protos \in {<<>>, <<NestedFn(1)>>} }

\* where write_file puts the tag byte of the root's constant i: after the
\* header, the upvalue count, the fields before `constants`, the count and
\* the constants before it
ConstantTagAt(f, i) ==
    HeaderLen + 1
    + Len(write_string(f.source)) + 4 + 4 + 3
    + 4 + 4 * Len(f.code)
    + 4 + Len(MapBytes(write_constant, SubSeq(f.constants, 1, i - 1)))
    + 1

\* where write_file puts the tag byte of the root's upvalue j
UpvalueTagAt(f, j) ==
    HeaderLen + 1
    + Len(write_string(f.source)) + 4 + 4 + 3
    + 4 + 4 * Len(f.code)
    + 4 + Len(MapBytes(write_constant, f.constants))
    + 4 + 2 * (j - 1)
    + 1

ConstantTags == {0, 1, 3, 19, 4, 20}

UpvalueTags == {0, 1}

TagBytes == {0, 1, 2, 3, 4, 5, 19, 20, 21, 128, 255}

InitTag == InitDriver(TagPool)

CorruptConstantTag ==
    /\ pc = "written"
    /\ mangled = {}
    /\ \E i \in 1..Len(function.constants), b \in TagBytes :
         /\ out[ConstantTagAt(function, i)] # b
         /\ out' = [out EXCEPT ![ConstantTagAt(function, i)] = b]
         /\ mangled' = {[op |-> "constant tag", index |-> i, byte |-> b]}
    /\ UNCHANGED <<pc, endian, rk, value, insn, word, string, function, result,
                   buf, start, stream, fed, overflow_checks>>

CorruptUpvalueTag ==
    /\ pc = "written"
    /\ mangled = {}
    /\ \E j \in 1..Len(function.upvalues), b \in TagBytes :
         /\ out[UpvalueTagAt(function, j)] # b
         /\ out' = [out EXCEPT ![UpvalueTagAt(function, j)] = b]
         /\ mangled' = {[op |-> "upvalue tag", index |-> j, byte |-> b]}
    /\ UNCHANGED <<pc, endian, rk, value, insn, word, string, function, result,
                   buf, start, stream, fed, overflow_checks>>

NextTag == WriteFileCall \/ CorruptConstantTag \/ CorruptUpvalueTag \/ ReadFileCall

SpecTag == InitTag /\ [][NextTag]_vars

\* C5 as stated: a constant tag byte outside {0, 1, 3, 0x13, 4, 0x14} and an
\* upvalue tag byte other than 0 and 1 each make read_file return an error
\* and no Function.
UnknownTagIsFatal ==
    pc = "read" =>
        \A m \in mangled :
            /\ m.op = "constant tag" /\ m.byte \notin ConstantTags => ~result.ok
            /\ m.op = "upvalue tag" /\ m.byte \notin UpvalueTags => ~result.ok

\* C5 as amended: a constant tag byte outside {0, 1, 3, 0x13, 4, 0x14} makes
\* read_file return the unknown-constant-type error and no Function; an
\* upvalue tag byte is never an error: 0 is read as Outer and every other
\* byte, 2..255 as well as 1, as Stack, the rest of the tree being unchanged.
UnknownTagConstantFatalUpvalueStack ==
    pc = "read" =>
        \A m \in mangled :
            /\ m.op = "constant tag" /\ m.byte \notin ConstantTags =>
                 /\ ~result.ok
                 /\ result.kind = "InvalidInput"
                 /\ result.msg = "unknown constant type"
                 /\ result.pos = ConstantTagAt(function, m.index)
            /\ m.op = "upvalue tag" =>
                 /\ result.ok
                 /\ result.val =
                      [function EXCEPT !.upvalues[m.index].tag =
                          IF m.byte = 0 THEN "Outer" ELSE "Stack"]

UnknownTagWitness ==
    /\ pc = "read"
    /\ \E m \in mangled : m.op = "upvalue tag" /\ m.byte = 255
    /\ result.ok
    /\ \E m \in mangled : result.val.upvalues[m.index].tag = "Stack"

====
